---- MODULE Spec2Model ----
(***************************************************************************)
(* deepcli (src/main.go): one run of the command-line client.              *)
(*                                                                         *)
(* A run is a straight line: parse the flags, show help, validate the      *)
(* sampling options, read the API key, read stdin and the input file,      *)
(* determine the prompt, build and marshal the request, issue one HTTP     *)
(* POST, handle the response.  Every os.Exit / return of main is a         *)
(* transition to pc = "exited" with the exit code the code passes.         *)
(*                                                                         *)
(* Text is a sequence of tokens; a token is one character, or a fixed      *)
(* chunk of text that is never split (the two literal message texts).      *)
(* A float64 is [nan, tenths]: NaN, or a number in tenths (0.7 is 7).      *)
(* The logger's lines (stderr with -v, discarded without) are diagnostic   *)
(* only and are not recorded; logger.Fatalf's exit is.                     *)
(***************************************************************************)
EXTENDS Integers, Sequences, FiniteSets, TLC

VARIABLES
    pc,           \* position of main
    exitCode,     \* status passed to os.Exit (0 on return from main)
    outcome,      \* which exit site ended the run ("" while running)
    instruction,  \* -i / --instruction
    outputFile,   \* -o / --output
    inputFile,    \* -f / --file
    temperature,  \* -t / --temperature
    maxTokens,    \* -m / --maxtokens
    rawOutput,    \* -raw
    showHelp,     \* -h / --help
    args,         \* flag.Args(): the positional arguments
    apiKey,       \* os.Getenv("DEEPSEEK_API_KEY")
    stdinKind,    \* "unread", "terminal", "pipe"
    pipedText,    \* what io.Copy read from stdin
    fileState,    \* "unread", "none" (no -f), "read", "error"
    fileContent,  \* what os.ReadFile returned
    input,        \* main's input
    prompt,       \* main's prompt
    messages,     \* main's messages
    requests,     \* the request bodies handed to client.Do, in order
    body,         \* <<>>, then <<b>> once io.ReadAll has returned the body b
    stdout,       \* writes to os.Stdout, in order
    stderr,       \* fmt.Fprintf writes to os.Stderr, in order
    written       \* os.WriteFile calls that succeeded: <<path, content>>

vars == <<pc, exitCode, outcome, instruction, outputFile, inputFile,
          temperature, maxTokens, rawOutput, showHelp, args, apiKey,
          stdinKind, pipedText, fileState, fileContent, input, prompt,
          messages, requests, body, stdout, stderr, written>>

----------------------------------------------------------------------------
(* Bounds of the input space *)

MaxPipeLen == 2
MaxFileLen == 1
MaxArgs == 2
MaxChoices == 2

(* Program constants *)

defaultMaxTokens == 2048
defaultTemperature == [nan |-> FALSE, tenths |-> 7]
model == "deepseek-chat"
apiURL == "https://api.deepseek.com/v1/chat/completions"

----------------------------------------------------------------------------
(* Text *)

RECURSIVE SeqsUpTo(_, _)
SeqsUpTo(S, n) ==
    IF n = 0 THEN {<<>>}
    ELSE LET shorter == SeqsUpTo(S, n - 1)
         IN  shorter \cup {Append(s, x) : s \in shorter, x \in S}

\* the white space strings.TrimSpace strips (unicode.IsSpace), as far as
\* a TLA+ string can spell it
IsSpace(c) == c \in {" ", "\t", "\n", "\r", "\f"}

RECURSIVE TrimLeft(_)
TrimLeft(s) ==
    IF s # <<>> /\ IsSpace(Head(s)) THEN TrimLeft(Tail(s)) ELSE s

RECURSIVE TrimRight(_)
TrimRight(s) ==
    IF s # <<>> /\ IsSpace(s[Len(s)])
    THEN TrimRight(SubSeq(s, 1, Len(s) - 1))
    ELSE s

\* strings.TrimSpace
TrimSpace(s) == TrimRight(TrimLeft(s))

\* strings.Join(elems, sep)
RECURSIVE Join(_, _)
Join(elems, sep) ==
    IF elems = <<>> THEN <<>>
    ELSE IF Len(elems) = 1 THEN elems[1]
    ELSE elems[1] \o sep \o Join(Tail(elems), sep)

----------------------------------------------------------------------------
(* float64 *)

Float(t) == [nan |-> FALSE, tenths |-> t]
NaN == [nan |-> TRUE, tenths |-> 0]

\* a < b on float64: false as soon as one side is NaN
FloatLess(a, b) == ~a.nan /\ ~b.nan /\ a.tenths < b.tenths

----------------------------------------------------------------------------
(* The steps of main as functions of what they read *)

\* temperature < 0.0 || temperature > 2.0
TemperatureRejected(t) == FloatLess(t, Float(0)) \/ FloatLess(Float(20), t)

\* maxTokens <= 0
MaxTokensRejected(m) == m <= 0

\* AssembleInput without the trim of what stdin gave
AssembleInputUntrimmed(in, content) == in \o <<"\n">> \o content

\* AssembleInput that joins with a newline only when stdin gave something
AssembleInputJoinIfPiped(in, content) ==
    IF TrimSpace(in) = <<>> THEN content
    ELSE TrimSpace(in) \o <<"\n">> \o content

\* input = strings.TrimSpace(input) + "\n" + string(fileContent)
AssembleInput(in, content) == TrimSpace(in) \o <<"\n">> \o content

\* DeterminePrompt with the positional arguments tried first
DeterminePromptPositionalFirst(instr, positional) ==
    IF Len(positional) > 0
    THEN [ok |-> TRUE, prompt |-> Join(positional, <<" ">>)]
    ELSE IF instr # <<>> THEN [ok |-> TRUE, prompt |-> instr]
    ELSE [ok |-> FALSE, prompt |-> <<>>]

\* the instruction, else the positional arguments joined, else nothing
DeterminePrompt(instr, positional) ==
    IF instr # <<>> THEN [ok |-> TRUE, prompt |-> instr]
    ELSE IF Len(positional) > 0
         THEN [ok |-> TRUE, prompt |-> Join(positional, <<" ">>)]
         ELSE [ok |-> FALSE, prompt |-> <<>>]

SystemPersona ==
    <<"Eres un asistente de programación experto. Ayudarás con código proporcionado por el usuario.">>

ContextPrefix == <<"Este es el código con el que necesito ayuda:", "\n">>

Message(role, content) == [Role |-> role, Content |-> content]

\* BuildMessages with the prompt put before the context
BuildMessagesPromptFirst(in, p) ==
    << Message("user", p) >>
    \o (IF in # <<>>
        THEN << Message("system", SystemPersona),
                Message("user", ContextPrefix \o in) >>
        ELSE << >>)

\* the messages of the request
BuildMessages(in, p) ==
    (IF in # <<>>
     THEN << Message("system", SystemPersona),
             Message("user", ContextPrefix \o in) >>
     ELSE << >>)
    \o << Message("user", p) >>

RequestBody(msgs, m, t) ==
    [Model |-> model, Messages |-> msgs, MaxTokens |-> m,
     Temperature |-> t, Stream |-> FALSE]

\* json.Marshal fails on a float64 that JSON cannot carry
MarshalFails(req) == req.Temperature.nan

----------------------------------------------------------------------------
(* The response *)

\* A response body, as the JSON document its bytes spell:
\*   wellFormed    the bytes are syntactically JSON
\*   errorField    "absent", "object" ({"message": ...}) or "string"
\*   errorMessage  error.message when errorField is "object"
\*   choicesField  "absent" or "array"
\*   choices       the message.content of each element of choices
Document(wf, ef, em, cf, cs) ==
    [wellFormed |-> wf, errorField |-> ef, errorMessage |-> em,
     choicesField |-> cf, choices |-> cs]

\* json.Unmarshal(body, &response): a field of the wrong JSON type is an
\* error, an absent field leaves the zero value
Unmarshal(b) ==
    IF ~b.wellFormed \/ b.errorField = "string"
    THEN [err |-> TRUE, Error |-> [Message |-> <<>>], Choices |-> <<>>]
    ELSE [err |-> FALSE,
          Error |-> [Message |-> IF b.errorField = "object"
                                 THEN b.errorMessage ELSE <<>>],
          Choices |-> IF b.choicesField = "array" THEN b.choices ELSE <<>>]

\* Classify with the choices looked at before the error field
ClassifyChoicesFirst(response) ==
    IF Len(response.Choices) > 0 THEN "choices"
    ELSE IF response.Error.Message # <<>> THEN "apiError"
    ELSE "noChoices"

\* the branch of the response handler a decoded response takes
Classify(response) ==
    IF response.Error.Message # <<>> THEN "apiError"
    ELSE IF Len(response.Choices) > 0 THEN "choices"
    ELSE "noChoices"

\* Output taking the last choice
OutputLast(response) == response.Choices[Len(response.Choices)]

\* output := response.Choices[0].Message.Content
Output(response) == response.Choices[1]

----------------------------------------------------------------------------
(* Inputs *)

\* a command line, as the values flag.Parse leaves behind; parsed is FALSE
\* when flag.Parse meets a flag it cannot parse
CommandLine(ok, h, i, pos, o, f, t, m, raw) ==
    [parsed |-> ok, showHelp |-> h, instruction |-> i, args |-> pos,
     outputFile |-> o, inputFile |-> f, temperature |-> t, maxTokens |-> m,
     rawOutput |-> raw]

Temperatures ==
    {Float(-1), Float(0), defaultTemperature, Float(20), Float(21), NaN}

TokenLimits == {-1, 0, 1, defaultMaxTokens}

Instructions == {<<>>, <<"I">>}

Positionals == SeqsUpTo({<<>>, <<"x">>}, MaxArgs)

\* command lines that vary the sampling options, help and parse failures
OptionLines ==
    {CommandLine(ok, h, <<"I">>, <<>>, "", "", t, m, raw) :
        ok \in BOOLEAN, h \in BOOLEAN, t \in Temperatures,
        m \in TokenLimits, raw \in BOOLEAN}

\* command lines that vary the flags carrying text and paths
TextLines ==
    {CommandLine(TRUE, FALSE, i, pos, o, f, defaultTemperature,
                 defaultMaxTokens, raw) :
        i \in Instructions, pos \in Positionals, o \in {"", "out.txt"},
        f \in {"", "in.txt"}, raw \in BOOLEAN}

\* command lines that vary what the response handler reads
OutputLines ==
    {CommandLine(TRUE, FALSE, <<"I">>, <<>>, o, f, defaultTemperature,
                 defaultMaxTokens, raw) :
        o \in {"", "out.txt"}, f \in {"", "in.txt"}, raw \in BOOLEAN}

PipeTexts == SeqsUpTo({"A", " ", "\n"}, MaxPipeLen)

FileTexts == SeqsUpTo({"B", "\n"}, MaxFileLen)

Contents == {<<"hello">>, <<"bye">>}

ErrorMessages == {<<>>, <<"rate limited">>}

MalformedBody == Document(FALSE, "absent", <<>>, "absent", <<>>)

Bodies ==
    {MalformedBody}
    \cup {Document(TRUE, "string", <<>>, "array", <<c>>) : c \in Contents}
    \cup {Document(TRUE, "absent", <<>>, "absent", <<>>)}
    \cup {Document(TRUE, "absent", <<>>, "array", cs) :
             cs \in SeqsUpTo(Contents, MaxChoices)}
    \cup {Document(TRUE, "object", em, "array", cs) :
             em \in ErrorMessages, cs \in SeqsUpTo(Contents, MaxChoices)}

SomeBodies ==
    {MalformedBody,
     Document(TRUE, "object", <<"rate limited">>, "array", <<>>),
     Document(TRUE, "absent", <<>>, "array", <<<<"hello">>>>)}

----------------------------------------------------------------------------
(* State *)

Init ==
    /\ pc = "start"
    /\ exitCode = 0
    /\ outcome = ""
    /\ instruction = <<>>
    /\ outputFile = ""
    /\ inputFile = ""
    /\ temperature = defaultTemperature
    /\ maxTokens = defaultMaxTokens
    /\ rawOutput = FALSE
    /\ showHelp = FALSE
    /\ args = <<>>
    /\ apiKey = ""
    /\ stdinKind = "unread"
    /\ pipedText = <<>>
    /\ fileState = "unread"
    /\ fileContent = <<>>
    /\ input = <<>>
    /\ prompt = <<>>
    /\ messages = <<>>
    /\ requests = <<>>
    /\ body = <<>>
    /\ stdout = <<>>
    /\ stderr = <<>>
    /\ written = <<>>

flagVars == <<instruction, outputFile, inputFile, temperature, maxTokens,
              rawOutput, showHelp, args>>
readVars == <<stdinKind, pipedText, fileState, fileContent, input>>
streams == <<stdout, stderr, written>>

\* one write to a stream: what is written and its text or bytes
Write(what, data) == [of |-> what, data |-> data]

\* os.Exit(code), or the return from main when code is 0
Exit(code, why) ==
    /\ pc' = "exited"
    /\ exitCode' = code
    /\ outcome' = why

Goto(label) ==
    /\ pc' = label
    /\ UNCHANGED <<exitCode, outcome>>

\* printHelp()
PrintHelp == stdout' = Append(stdout, Write("help", <<>>))

\* fmt.Fprintf(os.Stderr, ...); os.Exit(1)
Fail(why, data) ==
    /\ stderr' = Append(stderr, Write(why, data))
    /\ Exit(1, why)

----------------------------------------------------------------------------
(* The response handler as a function: what it writes and how it exits *)

Result(out, err, files, code, why) ==
    [stdout |-> out, stderr |-> err, written |-> files,
     exitCode |-> code, outcome |-> why]

\* fmt.Println(string(body)); return
RawResult(b) == Result(<<Write("body", b)>>, <<>>, <<>>, 0, "raw")

\* the handler from json.Unmarshal on; writeOk is whether os.WriteFile
\* succeeds when it is called
DecodedResult(b, path, writeOk) ==
    LET response == Unmarshal(b)
        branch == Classify(response)
    IN  IF response.err
        THEN Result(<<>>, <<Write("parseError", <<>>)>>, <<>>, 1, "parseError")
        ELSE IF branch = "apiError"
        THEN Result(<<>>, <<Write("apiError", response.Error.Message)>>,
                    <<>>, 1, "apiError")
        ELSE IF branch = "choices"
        THEN IF path # ""
             THEN IF writeOk
                  THEN Result(<<Write("confirmation", path)>>, <<>>,
                              <<[path |-> path, content |-> Output(response)]>>,
                              0, "written")
                  ELSE Result(<<>>, <<Write("writeError", <<>>)>>, <<>>,
                              1, "writeError")
             ELSE Result(<<Write("output", Output(response))>>, <<>>, <<>>,
                         0, "printed")
        ELSE Result(<<>>, <<Write("noChoices", <<>>)>>, <<>>, 1, "noChoices")

\* Respond without the early return of the raw mode
RespondWithoutReturn(raw, b, path, writeOk) ==
    LET d == DecodedResult(b, path, writeOk)
    IN  IF raw
        THEN Result(RawResult(b).stdout \o d.stdout, d.stderr, d.written,
                    d.exitCode, d.outcome)
        ELSE d

Respond(raw, b, path, writeOk) ==
    IF raw THEN RawResult(b) ELSE DecodedResult(b, path, writeOk)

----------------------------------------------------------------------------
(* The steps of main *)

\* flag.Parse(); a flag that does not parse calls flag.Usage, which prints
\* the help and exits 0
ParseFlags(lines) ==
    /\ pc = "start"
    /\ \E c \in lines :
        /\ instruction' = c.instruction
        /\ outputFile' = c.outputFile
        /\ inputFile' = c.inputFile
        /\ temperature' = c.temperature
        /\ maxTokens' = c.maxTokens
        /\ rawOutput' = c.rawOutput
        /\ showHelp' = c.showHelp
        /\ args' = c.args
        /\ IF c.parsed
           THEN /\ Goto("parsed")
                /\ UNCHANGED <<stdout, stderr>>
           ELSE /\ stderr' = Append(stderr, Write("flagError", <<>>))
                /\ PrintHelp
                /\ Exit(0, "usage")
    /\ UNCHANGED <<apiKey, readVars, prompt, messages, requests, body,
                   written>>

\* if *showHelp { printHelp(); os.Exit(0) }
CheckHelp ==
    /\ pc = "parsed"
    /\ IF showHelp
       THEN PrintHelp /\ Exit(0, "help")
       ELSE Goto("validate") /\ UNCHANGED stdout
    /\ UNCHANGED <<flagVars, apiKey, readVars, prompt, messages, requests,
                   body, stderr, written>>

\* the two range checks
ValidateOptions ==
    /\ pc = "validate"
    /\ IF TemperatureRejected(temperature)
       THEN Fail("badTemperature", <<>>)
       ELSE IF MaxTokensRejected(maxTokens)
       THEN Fail("badMaxTokens", <<>>)
       ELSE Goto("env") /\ UNCHANGED stderr
    /\ UNCHANGED <<flagVars, apiKey, readVars, prompt, messages, requests,
                   body, stdout, written>>

\* loadEnv(); apiKey = os.Getenv("DEEPSEEK_API_KEY")
LoadApiKey ==
    /\ pc = "env"
    /\ \E key \in {"", "sk"} :
        /\ apiKey' = key
        /\ IF key = ""
           THEN Fail("noApiKey", <<>>)
           ELSE Goto("stdin") /\ UNCHANGED stderr
    /\ UNCHANGED <<flagVars, readVars, prompt, messages, requests, body,
                   stdout, written>>

\* stdin is read whole when it is not a character device
ReadStdin(texts) ==
    /\ pc = "stdin"
    /\ \/ /\ stdinKind' = "terminal"
          /\ Goto("file")
          /\ UNCHANGED <<pipedText, input, stderr>>
       \/ \E t \in texts :
          /\ stdinKind' = "pipe"
          /\ pipedText' = t
          /\ input' = t
          /\ Goto("file")
          /\ UNCHANGED stderr
       \/ /\ stdinKind' = "pipe"
          /\ Fail("stdinError", <<>>)
          /\ UNCHANGED <<pipedText, input>>
    /\ UNCHANGED <<flagVars, apiKey, fileState, fileContent, prompt, messages,
                   requests, body, stdout, written>>

\* the input file, when one is named, is appended to what stdin gave
ReadInputFile(texts) ==
    /\ pc = "file"
    /\ IF inputFile = ""
       THEN /\ fileState' = "none"
            /\ Goto("prompt")
            /\ UNCHANGED <<fileContent, input, stderr>>
       ELSE \/ \E content \in texts :
               /\ fileState' = "read"
               /\ fileContent' = content
               /\ input' = AssembleInput(input, content)
               /\ Goto("prompt")
               /\ UNCHANGED stderr
            \/ /\ fileState' = "error"
               /\ Fail("fileError", <<>>)
               /\ UNCHANGED <<fileContent, input>>
    /\ UNCHANGED <<flagVars, apiKey, stdinKind, pipedText, prompt, messages,
                   requests, body, stdout, written>>

\* the prompt, or the help and exit 1 when there is none
DetermineInstruction ==
    /\ pc = "prompt"
    /\ LET p == DeterminePrompt(instruction, args)
       IN  IF p.ok
           THEN /\ prompt' = p.prompt
                /\ Goto("build")
                /\ UNCHANGED stdout
           ELSE /\ PrintHelp
                /\ Exit(1, "missingInstruction")
                /\ UNCHANGED prompt
    /\ UNCHANGED <<flagVars, apiKey, readVars, messages, requests, body,
                   stderr, written>>

\* messages, requestBody, json.Marshal (logger.Fatalf on failure)
BuildRequest ==
    /\ pc = "build"
    /\ messages' = BuildMessages(input, prompt)
    /\ IF MarshalFails(RequestBody(messages', maxTokens, temperature))
       THEN Exit(1, "marshalError")
       ELSE Goto("send")
    /\ UNCHANGED <<flagVars, apiKey, readVars, prompt, requests, body,
                   streams>>

\* http.NewRequest (which cannot fail on the fixed method and URL),
\* client.Do, io.ReadAll
SendRequest(bodies) ==
    /\ pc = "send"
    /\ requests' = Append(requests,
                          [Method |-> "POST", URL |-> apiURL,
                           Authorization |-> apiKey,
                           Body |-> RequestBody(messages, maxTokens,
                                                temperature)])
    /\ \/ Fail("transportError", <<>>) /\ UNCHANGED body
       \/ Fail("readError", <<>>) /\ UNCHANGED body
       \/ \E b \in bodies :
          /\ body' = <<b>>
          /\ Goto("respond")
          /\ UNCHANGED stderr
    /\ UNCHANGED <<flagVars, apiKey, readVars, prompt, messages, stdout,
                   written>>

\* everything after io.ReadAll
HandleResponse ==
    /\ pc = "respond"
    /\ \E writeOk \in BOOLEAN :
        LET r == Respond(rawOutput, body[1], outputFile, writeOk)
        IN  /\ stdout' = stdout \o r.stdout
            /\ stderr' = stderr \o r.stderr
            /\ written' = written \o r.written
            /\ Exit(r.exitCode, r.outcome)
    /\ UNCHANGED <<flagVars, apiKey, readVars, prompt, messages, requests,
                   body>>

Next ==
    \/ ParseFlags(OptionLines \cup TextLines)
    \/ CheckHelp
    \/ ValidateOptions
    \/ LoadApiKey
    \/ ReadStdin(PipeTexts)
    \/ ReadInputFile(FileTexts)
    \/ DetermineInstruction
    \/ BuildRequest
    \/ SendRequest(SomeBodies)
    \/ HandleResponse

Spec == Init /\ [][Next]_vars

\* the same program, fed few texts and every response body
NextResponse ==
    \/ ParseFlags(OutputLines)
    \/ CheckHelp
    \/ ValidateOptions
    \/ LoadApiKey
    \/ ReadStdin({<<"A", "\n">>})
    \/ ReadInputFile({<<"B">>})
    \/ DetermineInstruction
    \/ BuildRequest
    \/ SendRequest(Bodies)
    \/ HandleResponse

SpecResponse == Init /\ [][NextResponse]_vars

----------------------------------------------------------------------------
(* Properties *)

\* the response handler has run to its end
Handled == pc = "exited" /\ body # <<>>

\* the prompt has been determined, or found missing
PromptDecided ==
    \/ pc \in {"build", "send", "respond"}
    \/ pc = "exited" /\ fileState \in {"none", "read"}

\* the request has been built
RequestBuilt == messages # <<>>

\* a temperature that is not a number of [0.0, 2.0]
OutsideRange(t) == t.nan \/ t.tenths < 0 \/ t.tenths > 20

InvalidOptions == OutsideRange(temperature) \/ maxTokens <= 0

\* s without its leading and trailing white space, said without TrimSpace:
\* a middle part of s between two runs of white space, itself empty or
\* starting and ending with a character that is not white space
IsTrimOf(core, s) ==
    \E i \in 0..Len(s), j \in 0..Len(s) :
        /\ i + j <= Len(s)
        /\ \A k \in 1..i : IsSpace(s[k])
        /\ \A k \in (Len(s) - j + 1)..Len(s) : IsSpace(s[k])
        /\ core = SubSeq(s, i + 1, Len(s) - j)
        /\ core # <<>> => ~IsSpace(core[1]) /\ ~IsSpace(core[Len(core)])

\* C1: with rawOutput unset, a body that decodes with a non-empty
\* error.message makes the run write that message to stderr and exit
\* non-zero, whatever the choices are; nothing goes to stdout and the output
\* file is not written.
C1_ApiErrorWins ==
    (/\ Handled
     /\ ~rawOutput
     /\ ~Unmarshal(body[1]).err
     /\ body[1].errorMessage # <<>>)
    => /\ exitCode # 0
       /\ Len(stderr) = 1
       /\ stderr[1].of = "apiError"
       /\ stderr[1].data = body[1].errorMessage
       /\ stdout = <<>>
       /\ written = <<>>

C1_Witness ==
    /\ Handled
    /\ ~rawOutput
    /\ outputFile # ""
    /\ body[1].wellFormed
    /\ body[1].errorField = "object"
    /\ body[1].errorMessage = <<"rate limited">>
    /\ Len(body[1].choices) > 0
    /\ exitCode = 1

\* C2: a run whose temperature is outside [0.0, 2.0] or whose max-tokens is
\* <= 0 rejects the option and exits non-zero, having issued no HTTP
\* request, read no API key and read no input.
C2_InvalidOptionsRejected ==
    InvalidOptions
    => /\ requests = <<>>
       /\ apiKey = ""
       /\ stdinKind = "unread"
       /\ fileState = "unread"
       /\ pc = "exited" => /\ exitCode # 0
                           /\ outcome \in {"badTemperature", "badMaxTokens"}

\* C3: with rawOutput set, any body received is printed as it is to stdout
\* and the run exits 0: nothing is decoded or checked (stderr stays empty)
\* and no output file is written, even when one was named.
C3_RawVerbatim ==
    (Handled /\ rawOutput)
    => /\ exitCode = 0
       /\ Len(stdout) = 1
       /\ stdout[1].of = "body"
       /\ stdout[1].data = body[1]
       /\ stderr = <<>>
       /\ written = <<>>

C3_Witness ==
    /\ Handled
    /\ rawOutput
    /\ outputFile # ""
    /\ ~body[1].wellFormed
    /\ exitCode = 0
    /\ Len(stdout) = 1

\* C4: a run exits 0 exactly when it succeeded or showed the help on
\* request, and exits 1 on every failure, a flag that fails to parse
\* included.
C4_ExitCodes ==
    pc = "exited"
    => /\ exitCode = 0 <=> outcome \in {"help", "raw", "written", "printed"}
       /\ outcome \in {"usage", "badTemperature", "badMaxTokens", "noApiKey",
                       "stdinError", "fileError", "missingInstruction",
                       "marshalError", "transportError", "readError",
                       "parseError", "apiError", "noChoices", "writeError"}
          => exitCode = 1

\* C5: the messages of the request are, for a non-empty input, the system
\* persona, the user message of the fixed prefix followed by the input, and
\* the user message of the prompt, in this order; for an empty input, the
\* user message of the prompt alone.  A request sent carries these messages.
C5_MessageList ==
    RequestBuilt
    => /\ IF input # <<>>
          THEN /\ Len(messages) = 3
               /\ messages[1].Role = "system"
               /\ messages[1].Content = SystemPersona
               /\ messages[2].Role = "user"
               /\ messages[2].Content = ContextPrefix \o input
          ELSE Len(messages) = 1
       /\ messages[Len(messages)].Role = "user"
       /\ messages[Len(messages)].Content = prompt
       /\ \A i \in 1..Len(requests) : requests[i].Body.Messages = messages

C5_Witness ==
    /\ Len(requests) = 1
    /\ input = <<"A", "\n", "B">>
    /\ prompt = <<"x", " ", "x">>
    /\ Len(messages) = 3

\* C6: the prompt is the instruction option when it is not empty, the
\* positional arguments are then ignored; else the positional arguments
\* joined with single spaces when there is one at least; else the run shows
\* the help and exits non-zero without an HTTP request.
C6_PromptPrecedence ==
    PromptDecided
    => /\ instruction # <<>> => prompt = instruction
       /\ (instruction = <<>> /\ Len(args) > 0)
          => prompt = Join(args, <<" ">>)
       /\ (instruction = <<>> /\ args = <<<<"x">>, <<"x">>>>)
          => prompt = <<"x", " ", "x">>
       /\ (instruction = <<>> /\ Len(args) = 0)
          <=> (pc = "exited" /\ outcome = "missingInstruction")
       /\ outcome = "missingInstruction"
          => /\ exitCode # 0
             /\ Len(stdout) = 1
             /\ stdout[1].of = "help"
             /\ requests = <<>>

C6_Witness ==
    /\ pc = "build"
    /\ instruction = <<"I">>
    /\ Len(args) = 2
    /\ prompt = <<"I">>

\* C7: once the prompt is determined and the run goes on, the prompt is not
\* empty, so no request is built or sent whose last message is empty.
C7_PromptNeverEmpty ==
    /\ pc \in {"build", "send", "respond"} => prompt # <<>>
    /\ RequestBuilt => messages[Len(messages)].Content # <<>>
    /\ \A i \in 1..Len(requests) :
          requests[i].Body.Messages[Len(requests[i].Body.Messages)].Content
              # <<>>

\* C8: with piped stdin and an input file both read, the input is the piped
\* text trimmed, one newline, and the file content as it is, in this order;
\* piped "A\n" and file "B" give "A\nB".
C8_PipeThenFile ==
    (stdinKind = "pipe" /\ fileState = "read")
    => /\ \E n \in 0..Len(pipedText) :
            /\ IsTrimOf(SubSeq(input, 1, n), pipedText)
            /\ input = SubSeq(input, 1, n) \o <<"\n">> \o fileContent
       /\ (pipedText = <<"A", "\n">> /\ fileContent = <<"B">>)
          => input = <<"A", "\n", "B">>

C8_Witness ==
    /\ stdinKind = "pipe"
    /\ fileState = "read"
    /\ pipedText = <<"A", "\n">>
    /\ fileContent = <<"B">>
    /\ input = <<"A", "\n", "B">>

\* C9: with rawOutput unset, a body that decodes with an empty error
\* message and some choices gives the content of the first choice: to the
\* output file when one is named and the write succeeds, stdout then getting
\* only the line that names the file; else to stdout, no file being
\* written.  The run exits 0 in both cases.
C9_FirstChoiceOutput ==
    (/\ Handled
     /\ ~rawOutput
     /\ ~Unmarshal(body[1]).err
     /\ body[1].errorMessage = <<>>
     /\ Len(body[1].choices) > 0
     /\ outcome # "writeError")
    => /\ exitCode = 0
       /\ stderr = <<>>
       /\ Len(stdout) = 1
       /\ IF outputFile # ""
          THEN /\ stdout[1].of = "confirmation"
               /\ stdout[1].data = outputFile
               /\ Len(written) = 1
               /\ written[1].path = outputFile
               /\ written[1].content = body[1].choices[1]
          ELSE /\ stdout[1].of = "output"
               /\ stdout[1].data = body[1].choices[1]
               /\ written = <<>>

C9_Witness ==
    /\ Handled
    /\ ~rawOutput
    /\ outputFile # ""
    /\ body[1].choices = << <<"hello">>, <<"bye">> >>
    /\ Len(written) = 1
    /\ written[1].content = <<"hello">>

\* C10: once an input file is read, the input is the piped text trimmed
\* (empty when nothing was piped), a newline and the file content, so it is
\* not empty and every request built has the 3 messages, the empty file
\* with nothing piped included; with nothing piped the context starts with
\* a newline before the file content.
C10_FileGivesThreeMessages ==
    fileState = "read"
    => /\ Len(input) >= 1 + Len(fileContent)
       /\ SubSeq(input, Len(input) - Len(fileContent), Len(input))
              = <<"\n">> \o fileContent
       /\ IsTrimOf(SubSeq(input, 1, Len(input) - Len(fileContent) - 1),
                   pipedText)
       /\ stdinKind = "terminal" => input = <<"\n">> \o fileContent
       /\ RequestBuilt
          => /\ Len(messages) = 3
             /\ messages[1].Role = "system"
             /\ messages[2].Role = "user"
             /\ messages[3].Role = "user"
             /\ stdinKind = "terminal"
                => messages[2].Content
                       = ContextPrefix \o <<"\n">> \o fileContent
       /\ \A i \in 1..Len(requests) : Len(requests[i].Body.Messages) = 3

C10_Witness ==
    /\ fileState = "read"
    /\ stdinKind = "terminal"
    /\ fileContent = <<>>
    /\ input = <<"\n">>
    /\ Len(requests) = 1
    /\ Len(requests[1].Body.Messages) = 3

====
